---- MODULE Spec2Model ----
(***************************************************************************)
(* Model of the recipient validator, the proof-of-amounts rendering and    *)
(* the hardware-signer multisig registration of lwk.                       *)
(*                                                                         *)
(* Text is a sequence of one-character strings ("a:b" is <<"a",":","b">>); *)
(* the literal parts of a format string are kept as one element each.      *)
(* Option<T> is a sequence of length 0 (None) or 1 (Some).                 *)
(***************************************************************************)
EXTENDS Integers, Sequences, FiniteSets, TLC

VARIABLES
    value,      \* Option<String>: the text given to try_from
    args,       \* Option<..>: the arguments given to a constructor
    raw,        \* Option<UnvalidatedRecipient>: the raw spend request at hand
    network,    \* Option<ElementsNetwork>: the network of the last validate
    op,         \* the operation that returned last
    ret,        \* Option<Result<..>>: what it returned
    wtx,        \* Option<WalletTx>
    url,        \* Option<String>: the last unblinded_url
    params,     \* Option<RegisterMultisigParams>
    sent,       \* the requests sent to the device, oldest first
    jret        \* Option<Result<bool>>: the last register_multisig result

vars == <<value, args, raw, network, op, ret, wtx, url, params, sent, jret>>
recipientVars == <<value, args, raw, network, op, ret>>
walletVars == <<wtx, url>>
jadeVars == <<params, sent, jret>>

(***************************************************************************)
(* Bounds of the model.                                                    *)
(***************************************************************************)
MaxFields == 4      \* ':'-separated fields of a malformed recipient string
MaxTxLen == 2       \* inputs, and outputs, of a wallet transaction
MaxSigners == 2     \* co-signers of a multisig registration
MaxSatoshi == 2     \* amounts given to the constructors directly

(***************************************************************************)
(* Option, Result and text helpers.                                        *)
(***************************************************************************)
None == <<>>
Some(x) == <<x>>
IsSome(o) == Len(o) = 1
Unwrap(o) == o[1]

Ok(v) == [tag |-> "Ok", val |-> v]
Err(e) == [tag |-> "Err", err |-> e]
IsOk(r) == r.tag = "Ok"
IsErr(r) == r.tag = "Err"

Rep(c, n) == [i \in 1..n |-> c]

\* The text `ss[1] sep ss[2] sep ... ss[n]`.
RECURSIVE Join(_, _)
Join(ss, sep) ==
    IF ss = <<>> THEN <<>>
    ELSE IF Len(ss) = 1 THEN ss[1]
    ELSE ss[1] \o sep \o Join(Tail(ss), sep)

\* `needle` occurs in `hay` as a contiguous run.
Contains(hay, needle) ==
    \E i \in 0..(Len(hay) - Len(needle)) :
        \A j \in 1..Len(needle) : hay[i + j] = needle[j]

Digits == {"0", "1", "2", "3", "4", "5", "6", "7", "8", "9"}
HexLower == Digits \cup {"a", "b", "c", "d", "e", "f"}
HexUpper == {"A", "B", "C", "D", "E", "F"}

DigitVal(c) ==
    CASE c = "0" -> 0 [] c = "1" -> 1 [] c = "2" -> 2 [] c = "3" -> 3
      [] c = "4" -> 4 [] c = "5" -> 5 [] c = "6" -> 6 [] c = "7" -> 7
      [] c = "8" -> 8 [] c = "9" -> 9

DigitChar(d) ==
    CASE d = 0 -> "0" [] d = 1 -> "1" [] d = 2 -> "2" [] d = 3 -> "3"
      [] d = 4 -> "4" [] d = 5 -> "5" [] d = 6 -> "6" [] d = 7 -> "7"
      [] d = 8 -> "8" [] d = 9 -> "9"

ToLower(c) ==
    CASE c = "A" -> "a" [] c = "B" -> "b" [] c = "C" -> "c"
      [] c = "D" -> "d" [] c = "E" -> "e" [] c = "F" -> "f"
      [] OTHER -> c

(***************************************************************************)
(* str::split(':'): the fields between the colons; the empty string has    *)
(* one (empty) field.                                                      *)
(***************************************************************************)
IsColon(c) == c = ":"

Split(s) ==
    LET at == SelectSeq([i \in 1..Len(s) |-> i], LAMBDA i : IsColon(s[i]))
        cut == <<0>> \o at \o <<Len(s) + 1>>
    IN [k \in 1..(Len(at) + 1) |-> SubSeq(s, cut[k] + 1, cut[k + 1] - 1)]

(***************************************************************************)
(* str::parse::<u64>(): an optional '+', then one or more decimal digits,  *)
(* the number at most 2^64 - 1.  A u64 amount is kept as its decimal       *)
(* numeral (digits, no sign, no leading zero), which holds the full 64     *)
(* bits; U64(n) is the numeral of a small n.                               *)
(***************************************************************************)
U64MaxDigits ==
    <<"1", "8", "4", "4", "6", "7", "4", "4", "0", "7",
      "3", "7", "0", "9", "5", "5", "1", "6", "1", "5">>

RECURSIVE StripZeros(_)
StripZeros(ds) ==
    IF Len(ds) > 1 /\ Head(ds) = "0" THEN StripZeros(Tail(ds)) ELSE ds

\* ds <= es for two digit texts of the same length.
RECURSIVE DigitsLeq(_, _)
DigitsLeq(ds, es) ==
    IF ds = <<>> THEN TRUE
    ELSE IF DigitVal(Head(ds)) < DigitVal(Head(es)) THEN TRUE
    ELSE IF DigitVal(Head(ds)) > DigitVal(Head(es)) THEN FALSE
    ELSE DigitsLeq(Tail(ds), Tail(es))

FitsU64(ds) ==
    LET n == StripZeros(ds) IN
    \/ Len(n) < Len(U64MaxDigits)
    \/ Len(n) = Len(U64MaxDigits) /\ DigitsLeq(n, U64MaxDigits)

\* str::parse::<u32>(): the same, the number at most 2^32 - 1.
ParseU64_U32(s) ==
    LET ds == IF s # <<>> /\ Head(s) = "+" THEN Tail(s) ELSE s
        max == <<"4", "2", "9", "4", "9", "6", "7", "2", "9", "5">>
    IN
    IF ds = <<>> \/ \E i \in 1..Len(ds) : ds[i] \notin Digits
    THEN Err([kind |-> "ParseIntError", msg |-> <<>>])
    ELSE IF Len(StripZeros(ds)) > Len(max)
            \/ (Len(StripZeros(ds)) = Len(max) /\ ~DigitsLeq(StripZeros(ds), max))
    THEN Err([kind |-> "ParseIntError", msg |-> <<>>])
    ELSE Ok(StripZeros(ds))

ParseU64(s) ==
    LET ds == IF s # <<>> /\ Head(s) = "+" THEN Tail(s) ELSE s IN
    IF ds = <<>> \/ \E i \in 1..Len(ds) : ds[i] \notin Digits
    THEN Err([kind |-> "ParseIntError", msg |-> <<>>])
    ELSE IF ~FitsU64(ds) THEN Err([kind |-> "ParseIntError", msg |-> <<>>])
    ELSE Ok(StripZeros(ds))

\* u64's Display: the decimal digits, no sign, no leading zero.
RECURSIVE ToDecimal(_)
ToDecimal(n) ==
    IF n < 10 THEN <<DigitChar(n)>>
    ELSE Append(ToDecimal(n \div 10), DigitChar(n % 10))

U64(n) == ToDecimal(n)

(***************************************************************************)
(* elements::AssetId.  An asset id is written as 64 hexadecimal digits;    *)
(* from_str reads either case and Display writes lower case, so an id is   *)
(* kept as its lower-case text.                                            *)
(***************************************************************************)
AssetIdHexLen == 64

AssetIdFromStr(s) ==
    IF Len(s) = AssetIdHexLen /\ \A i \in 1..Len(s) : s[i] \in HexLower \cup HexUpper
    THEN Ok([i \in 1..Len(s) |-> ToLower(s[i])])
    ELSE Err([kind |-> "HexError", msg |-> <<>>])

(***************************************************************************)
(* ElementsNetwork and its policy asset (three distinct ids stand for the  *)
(* three networks' own).                                                   *)
(***************************************************************************)
Networks == {"Liquid", "LiquidTestnet", "ElementsRegtest"}

policy_asset(n) ==
    CASE n = "Liquid" -> Rep("6", AssetIdHexLen)
      [] n = "LiquidTestnet" -> Rep("1", AssetIdHexLen)
      [] n = "ElementsRegtest" -> Rep("5", AssetIdHexLen)

(***************************************************************************)
(* elements::Address.  Short texts stand for the addresses; each parses to *)
(* the network it is valid for, the payload its script is made from and    *)
(* its optional blinding key.                                              *)
(***************************************************************************)
BurnStr == <<"b", "u", "r", "n">>
AddrLq == <<"l", "q", "1">>          \* Liquid, confidential
AddrEx == <<"e", "x", "1">>          \* Liquid, not confidential
AddrTlq == <<"t", "l", "q", "1">>    \* LiquidTestnet, confidential
AddrEl == <<"e", "l", "1">>          \* ElementsRegtest, confidential

AddressFromStr(s) ==
    CASE s = AddrLq ->
            Some([params |-> "Liquid", payload |-> "p1", blinding_pubkey |-> Some("K1")])
      [] s = AddrEx ->
            Some([params |-> "Liquid", payload |-> "p2", blinding_pubkey |-> None])
      [] s = AddrTlq ->
            Some([params |-> "LiquidTestnet", payload |-> "p3", blinding_pubkey |-> Some("K3")])
      [] s = AddrEl ->
            Some([params |-> "ElementsRegtest", payload |-> "p4", blinding_pubkey |-> Some("K4")])
      [] OTHER -> None

script_pubkey(address) == <<"OP_0", address.payload>>

\* pset_create::validate_address: the text must parse as an address of `n`.
validate_address(s, n) ==
    LET a == AddressFromStr(s) IN
    IF IsSome(a) /\ Unwrap(a).params = n
    THEN Ok(Unwrap(a))
    ELSE Err([kind |-> "AddressError", msg |-> <<>>])

\* lwk_common::burn_script: the script that is a single OP_RETURN.
burn_script == <<"OP_RETURN">>

(***************************************************************************)
(* Recipient and UnvalidatedRecipient.                                     *)
(***************************************************************************)
\* from_address losing the address's blinding key.
from_address_NoKey(satoshi, address, asset) ==
    [satoshi |-> satoshi,
     script_pubkey |-> script_pubkey(address),
     blinding_pubkey |-> None,
     asset |-> asset]

from_address(satoshi, address, asset) ==
    [satoshi |-> satoshi,
     script_pubkey |-> script_pubkey(address),
     blinding_pubkey |-> address.blinding_pubkey,
     asset |-> asset]

lbtc(address, satoshi) ==
    [satoshi |-> satoshi, address |-> address, asset |-> <<>>]

burn(asset, satoshi) ==
    [satoshi |-> satoshi, address |-> BurnStr, asset |-> asset]

InvalidElementsMsg(v) ==
    <<"Invalid number of elements in string \"">> \o v
        \o <<"\", should be \"address:satoshi:assetid">>

\* try_from with the field count checked as "fewer than 3".
try_from_AtLeast3(v) ==
    LET pieces == Split(v) IN
    IF Len(pieces) < 3
    THEN Err([kind |-> "Generic", msg |-> InvalidElementsMsg(v)])
    ELSE LET satoshi == ParseU64(pieces[2]) IN
         IF IsErr(satoshi) THEN satoshi
         ELSE Ok([satoshi |-> satoshi.val, address |-> pieces[1], asset |-> pieces[3]])

\* try_from refusing a zero amount itself.
try_from_Eager(v) ==
    LET pieces == Split(v) IN
    IF Len(pieces) # 3
    THEN Err([kind |-> "Generic", msg |-> InvalidElementsMsg(v)])
    ELSE LET satoshi == ParseU64(pieces[2]) IN
         IF IsErr(satoshi) THEN satoshi
         ELSE IF satoshi.val = U64(0) THEN Err([kind |-> "InvalidAmount", msg |-> <<>>])
         ELSE Ok([satoshi |-> satoshi.val, address |-> pieces[1], asset |-> pieces[3]])

try_from(v) ==
    LET pieces == Split(v) IN
    IF Len(pieces) # 3
    THEN Err([kind |-> "Generic", msg |-> InvalidElementsMsg(v)])
    ELSE LET satoshi == ParseU64(pieces[2]) IN
         IF IsErr(satoshi) THEN satoshi
         ELSE Ok([satoshi |-> satoshi.val, address |-> pieces[1], asset |-> pieces[3]])

\* validate_asset ignoring the asset asked for.
validate_asset_PolicyOnly(self, n) == Ok(policy_asset(n))

validate_asset(self, n) ==
    IF self.asset = <<>>
    THEN Ok(policy_asset(n))
    ELSE AssetIdFromStr(self.asset)

\* validate_satoshi without its check.
validate_satoshi_Unchecked(self) == Ok(self.satoshi)

validate_satoshi(self) ==
    IF self.satoshi = U64(0)
    THEN Err([kind |-> "InvalidAmount", msg |-> <<>>])
    ELSE Ok(self.satoshi)

\* A burn that keeps a blinding key.
BurnRecipient_Keyed(satoshi, asset) ==
    [satoshi |-> satoshi,
     script_pubkey |-> burn_script,
     blinding_pubkey |-> Some("K1"),
     asset |-> asset]

\* The Recipient validate builds for a burn.
BurnRecipient(satoshi, asset) ==
    [satoshi |-> satoshi,
     script_pubkey |-> burn_script,
     blinding_pubkey |-> None,
     asset |-> asset]

\* validate without the "burn" sentinel.
validate_NoSentinel(self, n) ==
    LET satoshi == validate_satoshi(self) IN
    IF IsErr(satoshi) THEN satoshi
    ELSE LET asset == validate_asset(self, n) IN
         IF IsErr(asset) THEN asset
         ELSE LET address == validate_address(self.address, n) IN
              IF IsErr(address) THEN address
              ELSE Ok(from_address(self.satoshi, address.val, asset.val))

\* validate looking at the address before the asset.
validate_AddressFirst(self, n) ==
    LET satoshi == validate_satoshi(self) IN
    IF IsErr(satoshi) THEN satoshi
    ELSE IF self.address = BurnStr
         THEN LET asset == validate_asset(self, n) IN
              IF IsErr(asset) THEN asset
              ELSE Ok(BurnRecipient(satoshi.val, asset.val))
         ELSE LET address == validate_address(self.address, n) IN
              IF IsErr(address) THEN address
              ELSE LET asset == validate_asset(self, n) IN
                   IF IsErr(asset) THEN asset
                   ELSE Ok(from_address(self.satoshi, address.val, asset.val))

validate(self, n) ==
    LET satoshi == validate_satoshi(self) IN
    IF IsErr(satoshi) THEN satoshi
    ELSE LET asset == validate_asset(self, n) IN
         IF IsErr(asset) THEN asset
         ELSE IF self.address = BurnStr
              THEN Ok(BurnRecipient(satoshi.val, asset.val))
              ELSE LET address == validate_address(self.address, n) IN
                   IF IsErr(address) THEN address
                   ELSE Ok(from_address(self.satoshi, address.val, asset.val))

(***************************************************************************)
(* The inputs the operations are tried on.                                 *)
(***************************************************************************)
Colon == <<":">>

AddressStrings == {BurnStr, AddrLq, AddrEx, AddrTlq, AddrEl, <<"x">>, <<>>}

AssetStrings ==
    {<<>>, Rep("a", AssetIdHexLen), Rep("B", AssetIdHexLen),
     <<"a", "b">>, Rep("g", AssetIdHexLen)}

\* 2^64, the first amount that is too large.
U64Overflow ==
    <<"1", "8", "4", "4", "6", "7", "4", "4", "0", "7",
      "3", "7", "0", "9", "5", "5", "1", "6", "1", "6">>

AmountStrings ==
    {<<"0">>, <<"5">>, <<"+", "5">>, <<"0", "0">>, <<>>, <<"-", "1">>, <<"x">>,
     <<"+">>, U64MaxDigits, <<"0">> \o U64MaxDigits, U64Overflow}

OddFields == {<<>>, <<"0">>, BurnStr, <<"x">>}

\* "address:amount:asset" texts, and texts of 1..MaxFields fields.
RecipientStrings ==
    {Join(<<a, m, s>>, Colon) :
        a \in AddressStrings, m \in AmountStrings, s \in AssetStrings}
    \cup UNION {{Join(fs, Colon) : fs \in [1..k -> OddFields]} : k \in 1..MaxFields}

Satoshis == {U64(n) : n \in 0..MaxSatoshi}

ConstructorArgs ==
    [satoshi : Satoshis, address : AddressStrings, asset : AssetStrings]

(***************************************************************************)
(* WalletTx and its proof-of-amounts link.  The first secrets, the txid    *)
(* and the explorer are those of test_wollet_tx.                           *)
(***************************************************************************)
TestAsset ==
    <<"3", "8", "f", "c", "a", "2", "d", "9", "3", "9", "6", "9", "6", "0", "6", "1",
      "a", "8", "f", "7", "6", "d", "4", "e", "6", "b", "5", "e", "e", "c", "d", "5",
      "4", "e", "3", "b", "4", "2", "2", "1", "c", "8", "4", "6", "f", "2", "4", "a",
      "6", "b", "2", "7", "9", "e", "7", "9", "9", "5", "2", "8", "5", "0", "a", "5">>

TestValueBf ==
    <<"a", "b", "9", "a", "4", "2", "0", "5", "3", "c", "7", "a", "6", "a", "e", "0",
      "d", "5", "5", "b", "7", "7", "4", "f", "3", "d", "4", "6", "2", "b", "1", "a",
      "d", "f", "a", "a", "6", "3", "0", "e", "5", "d", "0", "f", "9", "b", "3", "c",
      "0", "f", "1", "6", "6", "4", "0", "d", "5", "5", "b", "8", "f", "6", "a", "b">>

TestAssetBf ==
    <<"6", "c", "5", "c", "2", "b", "4", "4", "a", "0", "7", "7", "7", "e", "4", "6",
      "3", "d", "2", "5", "e", "e", "c", "b", "7", "0", "a", "d", "e", "e", "8", "4",
      "b", "3", "1", "6", "c", "2", "5", "9", "7", "b", "8", "a", "2", "8", "1", "0",
      "8", "f", "f", "e", "e", "a", "3", "8", "c", "7", "a", "c", "f", "4", "5", "d">>

TestTxid ==
    <<"c", "6", "e", "3", "1", "8", "7", "f", "0", "2", "8", "9", "4", "2", "9", "7",
      "3", "a", "d", "2", "7", "2", "2", "4", "c", "a", "7", "9", "b", "a", "a", "8",
      "3", "8", "2", "e", "9", "0", "a", "d", "6", "8", "6", "e", "9", "2", "7", "f",
      "c", "2", "9", "8", "9", "6", "e", "8", "a", "2", "e", "d", "f", "3", "f", "3">>

TestExplorer ==
    <<"h", "t", "t", "p", "s", ":", "/", "/", "b", "l", "o", "c", "k", "s", "t", "r",
      "e", "a", "m", ".", "i", "n", "f", "o", "/", "l", "i", "q", "u", "i", "d", "t",
      "e", "s", "t", "n", "e", "t", "/">>

\* TxOutSecrets: value, asset, value_bf, asset_bf.
SecretsPool ==
    {[value |-> 5000, asset |-> TestAsset, value_bf |-> TestValueBf,
      asset_bf |-> TestAssetBf],
     [value |-> 0, asset |-> policy_asset("Liquid"), value_bf |-> Rep("0", AssetIdHexLen),
      asset_bf |-> Rep("f", AssetIdHexLen)]}

\* WalletTxOut, by the field the link reads.
WalletTxOuts == {[unblinded |-> s, wildcard_index |-> 0] : s \in SecretsPool}

OptionalTxOuts == {None} \cup {Some(o) : o \in WalletTxOuts}

TxOutLists == UNION {[1..k -> OptionalTxOuts] : k \in 0..MaxTxLen}

WalletTxs == [txid : {TestTxid}, inputs : TxOutLists, outputs : TxOutLists]

Comma == <<",">>

DisplayTxOutSecrets(s) ==
    ToDecimal(s.value) \o Comma \o s.asset \o Comma \o s.value_bf \o Comma \o s.asset_bf

\* One `for` loop of DisplayWalletTxInputOutputs::fmt over `items`, from the
\* text written so far and the `first` flag.
RECURSIVE FmtLoop(_, _)
FmtLoop(items, f) ==
    IF items = <<>> THEN f
    ELSE IF IsSome(Head(items))
         THEN FmtLoop(Tail(items),
                [out |-> f.out \o (IF ~f.first THEN Comma ELSE <<>>)
                            \o DisplayTxOutSecrets(Unwrap(Head(items)).unblinded),
                 first |-> FALSE])
         ELSE FmtLoop(Tail(items), f)

\* fmt with `first` set again before the outputs.
DisplayWalletTxInputOutputs_FirstReset(w) ==
    LET ins == FmtLoop(w.inputs, [out |-> <<>>, first |-> TRUE])
    IN FmtLoop(w.outputs, [out |-> ins.out, first |-> TRUE]).out

DisplayWalletTxInputOutputs(w) ==
    FmtLoop(w.outputs, FmtLoop(w.inputs, [out |-> <<>>, first |-> TRUE])).out

unblinded_url(w, explorer_url) ==
    explorer_url \o <<"tx/">> \o w.txid \o <<"#blinded=">>
        \o DisplayWalletTxInputOutputs(w)

ExplorerUrls == {TestExplorer, <<>>}

UnblindedUrl ==
    \E e \in ExplorerUrls :
        /\ IsSome(wtx)
        /\ url' = Some(unblinded_url(Unwrap(wtx), e))
        /\ UNCHANGED <<recipientVars, wtx, jadeVars>>

(***************************************************************************)
(* The hardware signer's multisig registration.                            *)
(***************************************************************************)
MaxNameLen == 16
MasterBlindingKeyLen == 32
MaxSent == 2        \* requests sent to the device in one run

JadeSigners ==
    {[fingerprint |-> <<0, 0, 0, 1>>, derivation |-> <<>>, xpub |-> "xpub", path |-> <<>>]}

JadeDescriptors ==
    [variant : {"wsh(multi(k))"},
     sorted : {FALSE},
     threshold : 0..(MaxSigners + 1),
     master_blinding_key :
        {Rep(0, n) : n \in (MasterBlindingKeyLen - 1)..(MasterBlindingKeyLen + 1)},
     signers : UNION {[1..k -> JadeSigners] : k \in 0..MaxSigners}]

RegisterMultisigParams ==
    [network : {"Liquid"},
     multisig_name : {Rep("n", n) : n \in {0, 1, MaxNameLen, MaxNameLen + 1}},
     descriptor : JadeDescriptors]

\* validate_shape without the check of the name.
validate_shape_NoName(p) ==
    /\ Len(p.descriptor.master_blinding_key) = MasterBlindingKeyLen
    /\ Len(p.descriptor.signers) >= 1
    /\ p.descriptor.threshold >= 1
    /\ p.descriptor.threshold <= Len(p.descriptor.signers)

\* The shape the engine requires of the message before it is sent.
validate_shape(p) ==
    /\ Len(p.multisig_name) <= MaxNameLen
    /\ Len(p.descriptor.master_blinding_key) = MasterBlindingKeyLen
    /\ Len(p.descriptor.signers) >= 1
    /\ p.descriptor.threshold >= 1
    /\ p.descriptor.threshold <= Len(p.descriptor.signers)

\* register_multisig: the request leaves only when the shape is valid; the
\* device then answers as it sees fit.
RegisterMultisig ==
    /\ IsSome(params)
    /\ Len(sent) < MaxSent
    /\ IF validate_shape(Unwrap(params))
       THEN /\ sent' = Append(sent, [method |-> "register_multisig", params |-> Unwrap(params)])
            /\ \E accepted \in BOOLEAN : jret' = Some(Ok(accepted))
       ELSE /\ sent' = sent
            /\ jret' = Some(Err([kind |-> "Generic", msg |-> <<>>]))
    /\ UNCHANGED <<recipientVars, walletVars, params>>

(***************************************************************************)
(* The recipient validator's operations.  The input at hand is a text      *)
(* (value) or the arguments of a constructor (args).                       *)
(***************************************************************************)
TryFrom ==
    /\ IsSome(value)
    /\ LET r == try_from(Unwrap(value)) IN
        /\ raw' = IF IsOk(r) THEN Some(r.val) ELSE None
        /\ ret' = Some(r)
    /\ network' = None
    /\ op' = "try_from"
    /\ UNCHANGED <<value, args, walletVars, jadeVars>>

Lbtc ==
    /\ IsSome(args)
    /\ raw' = Some(lbtc(Unwrap(args).address, Unwrap(args).satoshi))
    /\ ret' = None
    /\ network' = None
    /\ op' = "lbtc"
    /\ UNCHANGED <<value, args, walletVars, jadeVars>>

Burn ==
    /\ IsSome(args)
    /\ raw' = Some(burn(Unwrap(args).asset, Unwrap(args).satoshi))
    /\ ret' = None
    /\ network' = None
    /\ op' = "burn"
    /\ UNCHANGED <<value, args, walletVars, jadeVars>>

Validate ==
    \E n \in Networks :
        /\ IsSome(raw)
        /\ network' = Some(n)
        /\ op' = "validate"
        /\ ret' = Some(validate(Unwrap(raw), n))
        /\ UNCHANGED <<value, args, raw, walletVars, jadeVars>>

\* from_address takes an Address and an AssetId: the arguments must parse.
FromAddress ==
    /\ IsSome(args)
    /\ LET a == AddressFromStr(Unwrap(args).address)
           asset == AssetIdFromStr(Unwrap(args).asset)
       IN /\ IsSome(a)
          /\ IsOk(asset)
          /\ ret' = Some(Ok(from_address(Unwrap(args).satoshi, Unwrap(a), asset.val)))
    /\ network' = None
    /\ op' = "from_address"
    /\ UNCHANGED <<value, args, raw, walletVars, jadeVars>>

Idle ==
    /\ raw = None
    /\ network = None
    /\ op = "new"
    /\ ret = None
    /\ wtx = None
    /\ url = None
    /\ params = None
    /\ sent = <<>>
    /\ jret = None

Init ==
    /\ \/ value \in {Some(v) : v \in RecipientStrings} /\ args = None
       \/ value = None /\ args \in {Some(a) : a \in ConstructorArgs}
    /\ Idle

Next ==
    \/ TryFrom
    \/ Lbtc
    \/ Burn
    \/ Validate
    \/ FromAddress

Spec == Init /\ [][Next]_vars

InitWalletTx ==
    /\ value = None
    /\ args = None
    /\ raw = None
    /\ network = None
    /\ op = "new"
    /\ ret = None
    /\ wtx \in {Some(w) : w \in WalletTxs}
    /\ url = None
    /\ params = None
    /\ sent = <<>>
    /\ jret = None

NextWalletTx == UnblindedUrl

SpecWalletTx == InitWalletTx /\ [][NextWalletTx]_vars

InitJade ==
    /\ value = None
    /\ args = None
    /\ raw = None
    /\ network = None
    /\ op = "new"
    /\ ret = None
    /\ wtx = None
    /\ url = None
    /\ params \in {Some(p) : p \in RegisterMultisigParams}
    /\ sent = <<>>
    /\ jret = None

NextJade == RegisterMultisig

SpecJade == InitJade /\ [][NextJade]_vars

(***************************************************************************)
(* Properties of the recipient validator.                                  *)
(***************************************************************************)
InvalidAmount == Err([kind |-> "InvalidAmount", msg |-> <<>>])
HexError == Err([kind |-> "HexError", msg |-> <<>>])

Validated == op = "validate" /\ IsSome(raw) /\ IsSome(ret) /\ IsSome(network)
Self == Unwrap(raw)
Ret == Unwrap(ret)
Net == Unwrap(network)

\* The fields of the text given to try_from, counted by its colons.
FieldCount == Cardinality({i \in 1..Len(Unwrap(value)) : Unwrap(value)[i] = ":"}) + 1
Field(k) == Split(Unwrap(value))[k]
Parsed == op = "try_from" /\ IsSome(value) /\ IsSome(ret)

\* C1: validate returns Err(InvalidAmount) for every raw recipient whose
\* satoshi is 0, whatever the network, the address and the asset.
C1_ZeroAmountInvalid ==
    (Validated /\ Self.satoshi = <<"0">>) => Ret = InvalidAmount

C1_Witness ==
    /\ Validated
    /\ Self.satoshi = <<"0">>
    /\ Self.address = BurnStr
    /\ Self.asset = <<>>
    /\ Ret = InvalidAmount

\* C2: when validate succeeds on the address "burn", the Recipient has no
\* blinding key and the one burn script, whatever the network, amount, asset.
C2_BurnScriptFixed ==
    (Validated /\ Self.address = BurnStr /\ IsOk(Ret)) =>
        /\ Ret.val.blinding_pubkey = None
        /\ Ret.val.script_pubkey = <<"OP_RETURN">>

C2_Witness ==
    /\ Validated
    /\ Self.address = BurnStr
    /\ Self.asset # <<>>
    /\ Net = "LiquidTestnet"
    /\ IsOk(Ret)
    /\ Ret.val.script_pubkey = <<"OP_RETURN">>

AssetCarried ==
    IsOk(Ret) =>
        /\ Self.asset = <<>> => Ret.val.asset = policy_asset(Net)
        /\ Self.asset # <<>> =>
            /\ IsOk(AssetIdFromStr(Self.asset))
            /\ Ret.val.asset = AssetIdFromStr(Self.asset).val

\* C4, as stated: an empty asset resolves to the network's policy asset, a
\* non-empty one to the id it parses to, and validate fails with the parse
\* error when it does not parse.
C4_AssetResolved ==
    Validated =>
        /\ AssetCarried
        /\ (Self.asset # <<>> /\ IsErr(AssetIdFromStr(Self.asset))) => Ret = HexError

\* C4, amended: the same, the parse error being the result only when the
\* amount is not zero (a zero amount is refused first).
C4_AssetResolvedNonZero ==
    Validated =>
        /\ AssetCarried
        /\ (Self.satoshi # <<"0">> /\ Self.asset # <<>> /\ IsErr(AssetIdFromStr(Self.asset)))
               => Ret = HexError

C4_Witness ==
    /\ Validated
    /\ Self.satoshi # <<"0">>
    /\ Self.asset = Rep("B", AssetIdHexLen)
    /\ IsOk(Ret)
    /\ Ret.val.asset = Rep("b", AssetIdHexLen)

\* C5: an address other than "burn" must parse as an address of the given
\* network, else validate fails; on success the Recipient has that address's
\* script and its optional blinding key.
C5_AddressResolved ==
    (Validated /\ Self.address # BurnStr) =>
        LET a == AddressFromStr(Self.address) IN
        /\ IsOk(Ret) =>
            /\ IsSome(a)
            /\ Unwrap(a).params = Net
            /\ Ret.val.script_pubkey = <<"OP_0", Unwrap(a).payload>>
            /\ Ret.val.blinding_pubkey = Unwrap(a).blinding_pubkey
        /\ (a = None \/ Unwrap(a).params # Net) => IsErr(Ret)

C5_Witness ==
    /\ Validated
    /\ Self.address = AddrLq
    /\ IsOk(Ret)
    /\ Ret.val.blinding_pubkey = Some("K1")

\* C6: try_from fails with Error::Generic, the message holding the input, for
\* every input that does not have exactly 3 ':'-separated fields, and never
\* so for an input of exactly 3 fields.
C6_FieldCount ==
    Parsed =>
        /\ FieldCount # 3 =>
            /\ IsErr(Ret)
            /\ Ret.err.kind = "Generic"
            /\ Contains(Ret.err.msg, Unwrap(value))
        /\ FieldCount = 3 => ~(IsErr(Ret) /\ Ret.err.kind = "Generic")

C6_Witness ==
    /\ Parsed
    /\ FieldCount = 4
    /\ IsErr(Ret)
    /\ Ret.err.kind = "Generic"

\* C7, as stated: try_from on a 3-field text whose amount is "0" fails with
\* InvalidAmount.
C7_TryFromZeroInvalid ==
    (Parsed /\ FieldCount = 3 /\ Field(2) = <<"0">>) => Ret = InvalidAmount

\* C7, amended: try_from on a 3-field text whose amount is "0" succeeds with
\* satoshi 0; it is validate, on that result, that fails with InvalidAmount.
C7_ZeroInvalidOnValidate ==
    (IsSome(value) /\ FieldCount = 3 /\ Field(2) = <<"0">>) =>
        /\ Parsed =>
            Ret = Ok([satoshi |-> <<"0">>, address |-> Field(1), asset |-> Field(3)])
        /\ Validated => Ret = InvalidAmount

C7_Witness ==
    /\ IsSome(value)
    /\ FieldCount = 3
    /\ Field(2) = <<"0">>
    /\ Field(1) = AddrLq
    /\ Validated
    /\ Ret = InvalidAmount

\* C10: every Recipient has a non-zero amount, the one validate returns (the
\* raw request's) and the one from_address builds alike.
C10_RecipientAmountNonZero ==
    /\ (Validated /\ IsOk(Ret)) =>
        Ret.val.satoshi # <<"0">> /\ Ret.val.satoshi = Self.satoshi
    /\ (op = "from_address" /\ IsSome(ret)) => Ret.val.satoshi # <<"0">>

(***************************************************************************)
(* Properties of the proof-of-amounts link.                                *)
(***************************************************************************)
\* The text after the "#blinded=" of a link.
ProofText(u) ==
    LET k == CHOOSE i \in 1..Len(u) :
                 u[i] = "#blinded=" /\ \A j \in 1..(i - 1) : u[j] # "#blinded="
    IN SubSeq(u, k + 1, Len(u))

Owned(items) == SelectSeq(items, IsSome)

FourTuple(o) ==
    Join(<<ToDecimal(Unwrap(o).unblinded.value), Unwrap(o).unblinded.asset,
           Unwrap(o).unblinded.value_bf, Unwrap(o).unblinded.asset_bf>>, Comma)

OwnedTuples(w) ==
    LET own == Owned(w.inputs) \o Owned(w.outputs)
    IN [k \in 1..Len(own) |-> FourTuple(own[k])]

\* C8: the proof-of-amounts text of a WalletTx is the comma-join of the
\* 4-tuples value,asset,value_bf,asset_bf of the owned inputs in input order,
\* then of the owned outputs in output order; positions that are None add
\* nothing, no comma leads, trails or is doubled, and the text is empty when
\* no position is owned.
C8_ProofOfAmounts ==
    IsSome(url) =>
        LET w == Unwrap(wtx)
            text == ProofText(Unwrap(url))
        IN /\ text = Join(OwnedTuples(w), Comma)
           /\ text # <<>> => Head(text) # "," /\ text[Len(text)] # ","
           /\ \A i \in 1..(Len(text) - 1) : ~(text[i] = "," /\ text[i + 1] = ",")
           /\ OwnedTuples(w) = <<>> => text = <<>>

C8_Witness ==
    /\ IsSome(url)
    /\ Len(Unwrap(wtx).inputs) = 2
    /\ Unwrap(wtx).inputs[1] = None
    /\ IsSome(Unwrap(wtx).inputs[2])
    /\ Len(Owned(Unwrap(wtx).outputs)) = 2
    /\ Unwrap(wtx).outputs[1] # Unwrap(wtx).outputs[2]
    /\ Len(ProofText(Unwrap(url))) > 3 * Len(DisplayTxOutSecrets(Unwrap(Unwrap(wtx).inputs[2]).unblinded))

(***************************************************************************)
(* Properties of the multisig registration.                                *)
(***************************************************************************)
BadShape(p) ==
    \/ Len(p.multisig_name) > 16
    \/ Len(p.descriptor.master_blinding_key) # 32
    \/ p.descriptor.signers = <<>>
    \/ p.descriptor.threshold < 1
    \/ p.descriptor.threshold > Len(p.descriptor.signers)

\* C9: a registration whose name is longer than 16 characters, whose master
\* blinding key is not 32 bytes, whose signer list is empty or whose threshold
\* is outside [1, number of signers] is rejected before any message is sent.
C9_BadShapeNeverSent ==
    (IsSome(params) /\ BadShape(Unwrap(params))) =>
        /\ sent = <<>>
        /\ IsSome(jret) => IsErr(Unwrap(jret))

C9_Witness ==
    /\ IsSome(params)
    /\ Len(Unwrap(params).multisig_name) = 17
    /\ Len(Unwrap(params).descriptor.master_blinding_key) = 32
    /\ Len(Unwrap(params).descriptor.signers) = 2
    /\ Unwrap(params).descriptor.threshold = 2
    /\ IsSome(jret)
    /\ IsErr(Unwrap(jret))
    /\ sent = <<>>

(***************************************************************************)
(* Order of the checks of validate, and the fields try_from fills.         *)
(***************************************************************************)
AddressError == Err([kind |-> "AddressError", msg |-> <<>>])

\* C11: validate checks the amount, then the asset, then the address, and
\* returns the error of the first check that fails: a zero amount gives
\* InvalidAmount whatever the asset and the address, a non-zero amount with an
\* unparsable asset gives the asset's parse error whatever the address; an
\* error carries no Recipient, and the UnvalidatedRecipient is left as it was.
C11_FirstFailingCheck ==
    [][op' = "validate" =>
        /\ raw' = raw
        /\ LET self == Unwrap(raw')
               r == Unwrap(ret')
               n == Unwrap(network')
               badAsset == self.asset # <<>> /\ IsErr(AssetIdFromStr(self.asset))
               a == AddressFromStr(self.address)
               badAddress == self.address # BurnStr /\ (a = None \/ Unwrap(a).params # n)
           IN /\ self.satoshi = <<"0">> => r = InvalidAmount
              /\ (self.satoshi # <<"0">> /\ badAsset) => r = HexError
              /\ (self.satoshi # <<"0">> /\ ~badAsset /\ badAddress) => r = AddressError
              /\ (self.satoshi # <<"0">> /\ ~badAsset /\ ~badAddress) => IsOk(r)
              /\ IsErr(r) => "val" \notin DOMAIN r
    ]_vars

C11_Witness ==
    /\ Validated
    /\ Self.satoshi # <<"0">>
    /\ Self.asset = <<"a", "b">>
    /\ Self.address = <<"x">>
    /\ Ret = HexError

\* The number a run of five decimal digits writes.
Limb(ds, k) ==
    10000 * DigitVal(ds[k]) + 1000 * DigitVal(ds[k + 1]) + 100 * DigitVal(ds[k + 2])
        + 10 * DigitVal(ds[k + 3]) + DigitVal(ds[k + 4])

\* A numeral of 20 digits is at most 2^64 - 1 = 18446 74407 37095 51615.
AtMostU64Max(ds) ==
    LET a == Limb(ds, 1)
        b == Limb(ds, 6)
        c == Limb(ds, 11)
        d == Limb(ds, 16)
    IN \/ a < 18446
       \/ a = 18446 /\ b < 74407
       \/ a = 18446 /\ b = 74407 /\ c < 37095
       \/ a = 18446 /\ b = 74407 /\ c = 37095 /\ d <= 51615

Unsigned(f) == IF f # <<>> /\ f[1] = "+" THEN SubSeq(f, 2, Len(f)) ELSE f

\* The digits of f from its first non-zero one (the last digit when all are 0).
Numeral(f) ==
    LET ds == Unsigned(f)
        lead == {i \in 1..Len(ds) : \A j \in 1..i : ds[j] = "0"}
        skip == IF Cardinality(lead) = Len(ds) THEN Len(ds) - 1 ELSE Cardinality(lead)
    IN SubSeq(ds, skip + 1, Len(ds))

\* f is a decimal that fits 64 bits: digits only, after an optional '+'.
IsU64Decimal(f) ==
    /\ Unsigned(f) # <<>>
    /\ \A i \in 1..Len(Unsigned(f)) : Unsigned(f)[i] \in Digits
    /\ \/ Len(Numeral(f)) < 20
       \/ Len(Numeral(f)) = 20 /\ AtMostU64Max(Numeral(f))

\* C12: when try_from succeeds on "f0:f1:f2" the result has address f0,
\* satoshi f1 read as an unsigned 64-bit decimal and asset f2, neither address
\* nor asset being validated (an empty f2 and the address "burn" are kept); it
\* fails with a parse error whenever f1 is not such a decimal (empty,
\* negative, not a number, above 2^64 - 1).
C12_FieldsKept ==
    (Parsed /\ FieldCount = 3) =>
        IF IsU64Decimal(Field(2))
        THEN Ret = Ok([satoshi |-> Numeral(Field(2)),
                       address |-> Field(1),
                       asset |-> Field(3)])
        ELSE IsErr(Ret) /\ Ret.err.kind = "ParseIntError"

C12_Witness ==
    /\ Parsed
    /\ FieldCount = 3
    /\ Field(1) = BurnStr
    /\ Field(2) = <<"0">> \o U64MaxDigits
    /\ Field(3) = <<>>
    /\ IsOk(Ret)
    /\ Ret.val.satoshi = U64MaxDigits
    /\ Ret.val.address = BurnStr
    /\ Ret.val.asset = <<>>

====
